---- MODULE Spec2Model ----
(***************************************************************************)
(* Model of the two utilities of coreml-conversion:                        *)
(*   download_resource.py  main()   the Resource Fetcher (EnsureResource)  *)
(*   convert.py            convert() the Conversion Pipeline               *)
(* The fetcher is modelled as two operating-system processes running       *)
(* main() against one shared filesystem; each statement that touches the   *)
(* filesystem or the network is one step.  The pipeline is modelled as a   *)
(* single synchronous run, one step per stage.                             *)
(***************************************************************************)
EXTENDS Integers, Sequences, FiniteSets, TLC

\* ------------------------------------------------------------------ bounds
\* Number of chunks shutil.copyfileobj needs to copy the whole response.
FileLen == 2
\* Number of times each process invokes the script.
MaxRuns == 2
\* Number of convert() calls made in one behaviour.
MaxCalls == 2

\* --------------------------------------------------------- fetcher: values
\* The two processes that may run download_resource.py at the same time.
Procs == {"A", "B"}

\* tmp_path: pathlib.Path | None = None; temporary names are 1, 2, ...
None == 0

\* Names tempfile can hand out; every NamedTemporaryFile call gets a new one.
TmpNames == 1..(Cardinality(Procs) * MaxRuns)

\* The complete body served at TOKENIZER_URL, as the chunks copyfileobj reads.
RemoteFile == [i \in 1..FileLen |-> i]

\* A path that holds no file.
NoFile == [exists |-> FALSE, id |-> 0, data |-> <<>>]

\* A destination file left by something else before any run started.
OldFile == [exists |-> TRUE, id |-> 0, data |-> <<0>>]

\* No exception in flight.
NoExc == [cls |-> "None", at |-> "None"]

\* The filesystem that holds Sources/SegmentTextKit/Resources.
DestFS == "project"

\* The filesystems tempfile.gettempdir() may lie on.
Filesystems == {"project", "tmpfs"}

\* HTTP statuses a response object may carry.
Statuses == {200, 404}

VARIABLES
    \* ---- fetcher, shared
    dest,        \* the file at tokenizer_path (NoFile when absent)
    dirExists,   \* whether resources_dir exists
    tmpdir,      \* the temporary directory: name -> file
    tmpFS,       \* the filesystem the temporary directory lies on
    nextTmp,     \* how many temporary names have been handed out
    netCalls,    \* number of urlopen calls made so far
    renames,     \* the temporary names os.replace installed, in order
    \* ---- fetcher, per process
    pc,          \* position in main()
    runs,        \* which invocation of the script this is
    tmp_path,    \* local tmp_path (None or a temporary name)
    status,      \* response.status of the open response
    exc,         \* the exception raised in this run, if any
    ret,         \* the value main() is about to return ({} = none yet)
    exitCode,    \* the process exit status ({} = still running)
    stderr,      \* number of reports written to the error stream in this run
    \* ---- pipeline
    cpc,             \* position in convert()
    calls,           \* number of convert() calls so far
    conversion_type, \* argument of convert
    model_path,      \* argument of convert
    saved_name,      \* argument of convert
    disk,            \* files on disk: path -> content
    stages,          \* the stages this call has started, in order
    raised,          \* the exception that left convert(), "None" if none
    caught,          \* the exception bound by `except ValueError as e`
    stdout           \* what this call printed

fvars == <<dest, dirExists, tmpdir, tmpFS, nextTmp, netCalls, renames,
           pc, runs, tmp_path, status, exc, ret, exitCode, stderr>>
cvars == <<cpc, calls, conversion_type, model_path, saved_name, disk,
           stages, raised, caught, stdout>>
vars == <<fvars, cvars>>

\* ------------------------------------------------------- fetcher: helpers
\* tokenizer_path.exists() / tmp_path.exists()
Exists(f) == f.exists

\* except (urllib.error.URLError, OSError): HTTPError < URLError < OSError.
Caught(e) == e.cls \in {"OSError", "URLError", "HTTPError"}

\* The value main() returns on the already-present and the success path.
OkReturn == 0

\* Mutant of ExceptReturn: the except clause returns success.
ExceptReturnsOk == OkReturn

\* The value the except clause returns.
ExceptReturn == 1

\* The status an uncaught exception gives the interpreter's exit.
UncaughtExit == 1

\* response.status >= 400
IsHttpError(s) == s >= 400

\* Mutant of FreshTmpName: a fixed temporary name, used again by every call.
ReusedTmpName == IF nextTmp = 0 THEN nextTmp + 1 ELSE nextTmp

\* tempfile.NamedTemporaryFile(delete=False): a name no file has had.
FreshTmpName == nextTmp + 1

\* An exception raised inside the try block at `site`: control leaves the
\* with blocks and reaches the except clauses.
Raise(p, cls, site) ==
    /\ exc' = [exc EXCEPT ![p] = [cls |-> cls, at |-> site]]
    /\ pc' = [pc EXCEPT ![p] = "except"]

\* ------------------------------------------------------- fetcher: actions
\* Mutant of CheckExists: the existence check is missing, every run downloads.
CheckExistsNoShortCircuit(p) ==
    /\ pc[p] = "start"
    /\ pc' = [pc EXCEPT ![p] = "mkdir"]
    /\ UNCHANGED cvars
    /\ UNCHANGED <<dest, dirExists, tmpdir, tmpFS, nextTmp, netCalls, renames,
                   runs, tmp_path, status, exc, ret, exitCode, stderr>>

\* if tokenizer_path.exists(): return 0
CheckExists(p) ==
    /\ pc[p] = "start"
    /\ IF Exists(dest)
       THEN /\ pc' = [pc EXCEPT ![p] = "done"]
            /\ ret' = [ret EXCEPT ![p] = {OkReturn}]
            /\ exitCode' = [exitCode EXCEPT ![p] = {OkReturn}]
       ELSE /\ pc' = [pc EXCEPT ![p] = "mkdir"]
            /\ UNCHANGED <<ret, exitCode>>
    /\ UNCHANGED cvars
    /\ UNCHANGED <<dest, dirExists, tmpdir, tmpFS, nextTmp, netCalls, renames,
                   runs, tmp_path, status, exc, stderr>>

\* resources_dir.mkdir(parents=True, exist_ok=True)
Mkdir(p) ==
    /\ pc[p] = "mkdir"
    /\ dirExists' = TRUE
    /\ pc' = [pc EXCEPT ![p] = "mktemp"]
    /\ UNCHANGED cvars
    /\ UNCHANGED <<dest, tmpdir, tmpFS, nextTmp, netCalls, renames,
                   runs, tmp_path, status, exc, ret, exitCode, stderr>>

\* mkdir raises OSError; the call is outside the try block, so the exception
\* leaves main(), the interpreter prints the traceback and exits.
MkdirFail(p) ==
    /\ pc[p] = "mkdir"
    /\ ~dirExists
    /\ exc' = [exc EXCEPT ![p] = [cls |-> "OSError", at |-> "mkdir"]]
    /\ stderr' = [stderr EXCEPT ![p] = @ + 1]
    /\ exitCode' = [exitCode EXCEPT ![p] = {UncaughtExit}]
    /\ pc' = [pc EXCEPT ![p] = "done"]
    /\ UNCHANGED cvars
    /\ UNCHANGED <<dest, dirExists, tmpdir, tmpFS, nextTmp, netCalls, renames,
                   runs, tmp_path, status, ret>>

\* with tempfile.NamedTemporaryFile(delete=False) as tmp_file:
\*     tmp_path = pathlib.Path(tmp_file.name)
MkTemp(p) ==
    /\ pc[p] = "mktemp"
    /\ FreshTmpName \in TmpNames
    /\ nextTmp' = FreshTmpName
    /\ tmpdir' = [tmpdir EXCEPT ![FreshTmpName] =
                     [exists |-> TRUE, id |-> FreshTmpName, data |-> <<>>]]
    /\ tmp_path' = [tmp_path EXCEPT ![p] = FreshTmpName]
    /\ pc' = [pc EXCEPT ![p] = "urlopen"]
    /\ UNCHANGED cvars
    /\ UNCHANGED <<dest, dirExists, tmpFS, netCalls, renames,
                   runs, status, exc, ret, exitCode, stderr>>

\* NamedTemporaryFile raises OSError: no file, tmp_path stays None.
MkTempFail(p) ==
    /\ pc[p] = "mktemp"
    /\ Raise(p, "OSError", "mktemp")
    /\ UNCHANGED cvars
    /\ UNCHANGED <<dest, dirExists, tmpdir, tmpFS, nextTmp, netCalls, renames,
                   runs, tmp_path, status, ret, exitCode, stderr>>

\* with urllib.request.urlopen(TOKENIZER_URL) as response:
UrlOpen(p) ==
    /\ pc[p] = "urlopen"
    /\ netCalls' = netCalls + 1
    /\ \E s \in Statuses : status' = [status EXCEPT ![p] = s]
    /\ pc' = [pc EXCEPT ![p] = "status"]
    /\ UNCHANGED cvars
    /\ UNCHANGED <<dest, dirExists, tmpdir, tmpFS, nextTmp, renames,
                   runs, tmp_path, exc, ret, exitCode, stderr>>

\* urlopen raises: URLError for a network failure, or an exception that is
\* no OSError (http.client.HTTPException, KeyboardInterrupt).
UrlOpenFail(p) ==
    /\ pc[p] = "urlopen"
    /\ netCalls' = netCalls + 1
    /\ \E c \in {"URLError", "HTTPException"} : Raise(p, c, "urlopen")
    /\ UNCHANGED cvars
    /\ UNCHANGED <<dest, dirExists, tmpdir, tmpFS, nextTmp, renames,
                   runs, tmp_path, status, ret, exitCode, stderr>>

\* if response.status >= 400: raise urllib.error.HTTPError(...)
CheckStatus(p) ==
    /\ pc[p] = "status"
    /\ IF IsHttpError(status[p])
       THEN Raise(p, "HTTPError", "status")
       ELSE /\ pc' = [pc EXCEPT ![p] = "copy"]
            /\ UNCHANGED exc
    /\ UNCHANGED cvars
    /\ UNCHANGED <<dest, dirExists, tmpdir, tmpFS, nextTmp, netCalls, renames,
                   runs, tmp_path, status, ret, exitCode, stderr>>

\* shutil.copyfileobj(response, tmp_file): one read/write round of its loop.
CopyChunk(p) ==
    /\ pc[p] = "copy"
    /\ Len(tmpdir[tmp_path[p]].data) < FileLen
    /\ tmpdir' = [tmpdir EXCEPT ![tmp_path[p]].data =
                     Append(@, RemoteFile[Len(@) + 1])]
    /\ UNCHANGED cvars
    /\ UNCHANGED <<dest, dirExists, tmpFS, nextTmp, netCalls, renames,
                   pc, runs, tmp_path, status, exc, ret, exitCode, stderr>>

\* copyfileobj reads end of file; both with blocks exit normally.
CopyDone(p) ==
    /\ pc[p] = "copy"
    /\ Len(tmpdir[tmp_path[p]].data) = FileLen
    /\ pc' = [pc EXCEPT ![p] = "replace"]
    /\ UNCHANGED cvars
    /\ UNCHANGED <<dest, dirExists, tmpdir, tmpFS, nextTmp, netCalls, renames,
                   runs, tmp_path, status, exc, ret, exitCode, stderr>>

\* a read or a write of the copy raises, whatever has been copied so far:
\* OSError (connection reset, disk full) or an exception that is no OSError
\* (http.client.IncompleteRead, KeyboardInterrupt).
CopyFail(p) ==
    /\ pc[p] = "copy"
    /\ \E c \in {"OSError", "HTTPException"} : Raise(p, c, "copy")
    /\ UNCHANGED cvars
    /\ UNCHANGED <<dest, dirExists, tmpdir, tmpFS, nextTmp, netCalls, renames,
                   runs, tmp_path, status, ret, exitCode, stderr>>

\* tmp_path.replace(tokenizer_path): rename(2) moves the file in one step.
\* It needs source and destination on one filesystem.
Replace(p) ==
    /\ pc[p] = "replace"
    /\ tmpFS = DestFS
    /\ dest' = tmpdir[tmp_path[p]]
    /\ tmpdir' = [tmpdir EXCEPT ![tmp_path[p]] = NoFile]
    /\ renames' = Append(renames, tmp_path[p])
    /\ ret' = [ret EXCEPT ![p] = {OkReturn}]
    /\ pc' = [pc EXCEPT ![p] = "finally"]
    /\ UNCHANGED cvars
    /\ UNCHANGED <<dirExists, tmpFS, nextTmp, netCalls,
                   runs, tmp_path, status, exc, exitCode, stderr>>

\* rename(2) raises OSError: EXDEV when the temporary directory lies on
\* another filesystem, or any other error (EACCES, EIO) otherwise.
ReplaceFail(p) ==
    /\ pc[p] = "replace"
    /\ Raise(p, "OSError", "replace")
    /\ UNCHANGED cvars
    /\ UNCHANGED <<dest, dirExists, tmpdir, tmpFS, nextTmp, netCalls, renames,
                   runs, tmp_path, status, ret, exitCode, stderr>>

\* Mutant of Except: the clause reports the error and execution goes on to
\* the replace instead of returning.
ExceptFallsThrough(p) ==
    /\ pc[p] = "except"
    /\ stderr' = [stderr EXCEPT ![p] = @ + 1]
    /\ pc' = [pc EXCEPT ![p] = IF tmp_path[p] # None /\ exc[p].at # "replace"
                                THEN "replace" ELSE "finally"]
    /\ ret' = [ret EXCEPT ![p] = {ExceptReturn}]
    /\ UNCHANGED cvars
    /\ UNCHANGED <<dest, dirExists, tmpdir, tmpFS, nextTmp, netCalls, renames,
                   runs, tmp_path, status, exc, exitCode>>

\* except (urllib.error.URLError, OSError) as exc: print(..., file=sys.stderr);
\* return 1.  Any other exception passes the clause and goes on to finally.
Except(p) ==
    /\ pc[p] = "except"
    /\ IF Caught(exc[p])
       THEN /\ stderr' = [stderr EXCEPT ![p] = @ + 1]
            /\ ret' = [ret EXCEPT ![p] = {ExceptReturn}]
       ELSE UNCHANGED <<stderr, ret>>
    /\ pc' = [pc EXCEPT ![p] = "finally"]
    /\ UNCHANGED cvars
    /\ UNCHANGED <<dest, dirExists, tmpdir, tmpFS, nextTmp, netCalls, renames,
                   runs, tmp_path, status, exc, exitCode>>

\* Mutant of Finally: the cleanup is missing.
FinallyNoUnlink(p) ==
    /\ pc[p] = "finally"
    /\ IF ret[p] # {}
       THEN /\ exitCode' = [exitCode EXCEPT ![p] = ret[p]]
            /\ UNCHANGED stderr
       ELSE /\ exitCode' = [exitCode EXCEPT ![p] = {UncaughtExit}]
            /\ stderr' = [stderr EXCEPT ![p] = @ + 1]
    /\ pc' = [pc EXCEPT ![p] = "done"]
    /\ UNCHANGED cvars
    /\ UNCHANGED <<dest, dirExists, tmpdir, tmpFS, nextTmp, netCalls, renames,
                   runs, tmp_path, status, exc, ret>>

\* finally: if tmp_path and tmp_path.exists(): tmp_path.unlink()
\* then main() returns (sys.exit(main())) or the pending exception leaves
\* main() and the interpreter reports it and exits.
Finally(p) ==
    /\ pc[p] = "finally"
    /\ IF tmp_path[p] # None /\ Exists(tmpdir[tmp_path[p]])
       THEN tmpdir' = [tmpdir EXCEPT ![tmp_path[p]] = NoFile]
       ELSE UNCHANGED tmpdir
    /\ IF ret[p] # {}
       THEN /\ exitCode' = [exitCode EXCEPT ![p] = ret[p]]
            /\ UNCHANGED stderr
       ELSE /\ exitCode' = [exitCode EXCEPT ![p] = {UncaughtExit}]
            /\ stderr' = [stderr EXCEPT ![p] = @ + 1]
    /\ pc' = [pc EXCEPT ![p] = "done"]
    /\ UNCHANGED cvars
    /\ UNCHANGED <<dest, dirExists, tmpFS, nextTmp, netCalls, renames,
                   runs, tmp_path, status, exc, ret>>

\* The script is invoked again: a new process, new locals.
Rerun(p) ==
    /\ pc[p] = "done"
    /\ runs[p] < MaxRuns
    /\ runs' = [runs EXCEPT ![p] = @ + 1]
    /\ pc' = [pc EXCEPT ![p] = "start"]
    /\ tmp_path' = [tmp_path EXCEPT ![p] = None]
    /\ status' = [status EXCEPT ![p] = 0]
    /\ exc' = [exc EXCEPT ![p] = NoExc]
    /\ ret' = [ret EXCEPT ![p] = {}]
    /\ exitCode' = [exitCode EXCEPT ![p] = {}]
    /\ stderr' = [stderr EXCEPT ![p] = 0]
    /\ UNCHANGED cvars
    /\ UNCHANGED <<dest, dirExists, tmpdir, tmpFS, nextTmp, netCalls, renames>>

\* --------------------------------------------------------- pipeline: values
\* The closed set of Conversion members apply_conversion accepts.
Recognized == {"NONE", "QUANTIZED"}

\* The variants a caller may pass: the recognized ones and one that is not.
Variants == Recognized \cup {"BOGUS"}

\* Model sources: the one the script converts, and one that does not resolve.
ModelPaths == {"segment-any-text/sat-3l-sm", "no/such-model"}

\* Output names a caller may pass.
Names == {"SaT", "Other", ""}

\* The order in which convert() and convert_to_coreml() run their stages.
StageOrder ==
    <<"load", "tokenize", "trace", "ct_convert", "apply", "save", "patch">>

\* Names bound where the except clause runs: convert's parameters and locals,
\* the bound exception, and the module's globals.
BoundNames ==
    {"conversion_type", "model_path", "saved_name", "model", "e",
     "os", "ct", "np", "torch", "AutoModelForTokenClassification",
     "AutoTokenizer", "wtpsplit", "Conversion", "apply_conversion",
     "update_manifest_model_name", "convert_to_coreml", "convert", "print"}

\* The name the except clause passes to print.
PrintedName == "error"

\* from_pretrained finds the model source.
Resolvable(path) == path = "segment-any-text/sat-3l-sm"

\* saved_path = f"{saved_name}.mlpackage"
SavedPath(name) == name \o ".mlpackage"

\* manifest_file = os.path.join(saved_path, "Manifest.json")
ManifestFile(path) == path \o "/Manifest.json"

\* The model file inside a saved bundle.
ModelFile(path) == path \o "/Data/model.mlmodel"

\* The model name a freshly saved bundle's manifest carries.
DefaultModelName == "model.mlmodel"

\* d with file k holding v.
Put(d, k, v) == [x \in DOMAIN d \cup {k} |-> IF x = k THEN v ELSE d[x]]

\* new_model.save(saved_path): the bundle directory with its manifest and
\* the model.
SaveBundle(d, path, variant, source) ==
    Put(Put(d, ManifestFile(path),
            [modelName |-> DefaultModelName, fileFormat |-> "mlpackage"]),
        ModelFile(path), [variant |-> variant, source |-> source])

\* apply_conversion(model, conversion_type) accepts exactly the recognized
\* variants and raises ValueError for any other.
ApplyAccepts(variant) == variant \in Recognized

\* update_manifest_model_name(manifest_file, name): rewrite the model-name
\* field, leave every other field as it is.
UpdateManifestModelName(d, file, name) ==
    [d EXCEPT ![file] = [@ EXCEPT !.modelName = name]]

\* An exception leaves convert(): the run is over.
Abort(e) ==
    /\ raised' = e
    /\ cpc' = "done"

\* -------------------------------------------------------- pipeline: actions
\* convert(conversion_type, model_path, saved_name) is called.
Call ==
    /\ cpc \in {"idle", "done"}
    /\ calls < MaxCalls
    /\ calls' = calls + 1
    /\ conversion_type' \in Variants
    /\ model_path' \in ModelPaths
    /\ saved_name' \in Names
    /\ cpc' = "load"
    /\ stages' = <<>>
    /\ raised' = "None"
    /\ caught' = "None"
    /\ stdout' = <<>>
    /\ UNCHANGED disk
    /\ UNCHANGED fvars

\* model = AutoModelForTokenClassification.from_pretrained(model_path, ...).eval()
Load ==
    /\ cpc = "load"
    /\ Resolvable(model_path)
    /\ stages' = Append(stages, "load")
    /\ cpc' = "tokenize"
    /\ UNCHANGED <<calls, conversion_type, model_path, saved_name, disk,
                   raised, caught, stdout>>
    /\ UNCHANGED fvars

\* from_pretrained raises: the source does not resolve, or it cannot be read.
LoadFail ==
    /\ cpc = "load"
    /\ stages' = Append(stages, "load")
    /\ Abort("ModelLoadError")
    /\ UNCHANGED <<calls, conversion_type, model_path, saved_name, disk,
                   caught, stdout>>
    /\ UNCHANGED fvars

\* tokenizer = AutoTokenizer.from_pretrained(...); tokenized = tokenizer(...)
Tokenize ==
    /\ cpc = "tokenize"
    /\ stages' = Append(stages, "tokenize")
    /\ cpc' = "trace"
    /\ UNCHANGED <<calls, conversion_type, model_path, saved_name, disk,
                   raised, caught, stdout>>
    /\ UNCHANGED fvars

\* the tokenizer cannot be loaded
TokenizeFail ==
    /\ cpc = "tokenize"
    /\ stages' = Append(stages, "tokenize")
    /\ Abort("TokenizerError")
    /\ UNCHANGED <<calls, conversion_type, model_path, saved_name, disk,
                   caught, stdout>>
    /\ UNCHANGED fvars

\* traced_model = torch.jit.trace(model, (input_ids, attention_mask))
Trace ==
    /\ cpc = "trace"
    /\ stages' = Append(stages, "trace")
    /\ cpc' = "ct_convert"
    /\ UNCHANGED <<calls, conversion_type, model_path, saved_name, disk,
                   raised, caught, stdout>>
    /\ UNCHANGED fvars

\* torch.jit.trace raises
TraceFail ==
    /\ cpc = "trace"
    /\ stages' = Append(stages, "trace")
    /\ Abort("TraceError")
    /\ UNCHANGED <<calls, conversion_type, model_path, saved_name, disk,
                   caught, stdout>>
    /\ UNCHANGED fvars

\* mlpackage = ct.convert(traced_model, ...); return mlpackage
CtConvert ==
    /\ cpc = "ct_convert"
    /\ stages' = Append(stages, "ct_convert")
    /\ cpc' = "apply"
    /\ UNCHANGED <<calls, conversion_type, model_path, saved_name, disk,
                   raised, caught, stdout>>
    /\ UNCHANGED fvars

\* Mutant of CtConvertFail: the failure is swallowed and the run goes on.
CtConvertFailSwallowed ==
    /\ cpc = "ct_convert"
    /\ stages' = Append(stages, "ct_convert")
    /\ caught' = "PackageConversionError"
    /\ cpc' = "apply"
    /\ UNCHANGED <<calls, conversion_type, model_path, saved_name, disk,
                   raised, stdout>>
    /\ UNCHANGED fvars

\* ct.convert raises
CtConvertFail ==
    /\ cpc = "ct_convert"
    /\ stages' = Append(stages, "ct_convert")
    /\ Abort("PackageConversionError")
    /\ UNCHANGED <<calls, conversion_type, model_path, saved_name, disk,
                   caught, stdout>>
    /\ UNCHANGED fvars

\* try: new_model = apply_conversion(model, conversion_type)
\* except ValueError as e:
Apply ==
    /\ cpc = "apply"
    /\ stages' = Append(stages, "apply")
    /\ IF ApplyAccepts(conversion_type)
       THEN /\ cpc' = "save"
            /\ UNCHANGED caught
       ELSE /\ cpc' = "except"
            /\ caught' = "ValueError"
    /\ UNCHANGED <<calls, conversion_type, model_path, saved_name, disk,
                   raised, stdout>>
    /\ UNCHANGED fvars

\* Mutant of ExceptValueError: the clause prints the bound exception and
\* execution goes on to the save with the untransformed model.
ExceptValueErrorFallsThrough ==
    /\ cpc = "except"
    /\ stdout' = Append(stdout, caught)
    /\ cpc' = "save"
    /\ UNCHANGED <<calls, conversion_type, model_path, saved_name, disk,
                   stages, raised, caught>>
    /\ UNCHANGED fvars

\* print(error); return -- evaluating the name `error` comes first: a name
\* that is not bound raises NameError out of the except clause.
ExceptValueError ==
    /\ cpc = "except"
    /\ IF PrintedName \in BoundNames
       THEN /\ stdout' = Append(stdout, caught)
            /\ cpc' = "done"
            /\ UNCHANGED raised
       ELSE /\ Abort("NameError")
            /\ UNCHANGED stdout
    /\ UNCHANGED <<calls, conversion_type, model_path, saved_name, disk,
                   stages, caught>>
    /\ UNCHANGED fvars

\* saved_path = f"{saved_name}.mlpackage"; new_model.save(saved_path)
Save ==
    /\ cpc = "save"
    /\ stages' = Append(stages, "save")
    /\ disk' = SaveBundle(disk, SavedPath(saved_name), conversion_type,
                          model_path)
    /\ cpc' = "patch"
    /\ UNCHANGED <<calls, conversion_type, model_path, saved_name,
                   raised, caught, stdout>>
    /\ UNCHANGED fvars

\* save raises before anything is written
SaveFail ==
    /\ cpc = "save"
    /\ stages' = Append(stages, "save")
    /\ Abort("OSError")
    /\ UNCHANGED <<calls, conversion_type, model_path, saved_name, disk,
                   caught, stdout>>
    /\ UNCHANGED fvars

\* Mutant of Patch: the bundle path is written as the model name.
PatchWithPath ==
    /\ cpc = "patch"
    /\ stages' = Append(stages, "patch")
    /\ disk' = UpdateManifestModelName(
                   disk, ManifestFile(SavedPath(saved_name)),
                   SavedPath(saved_name))
    /\ cpc' = "done"
    /\ UNCHANGED <<calls, conversion_type, model_path, saved_name,
                   raised, caught, stdout>>
    /\ UNCHANGED fvars

\* manifest_file = os.path.join(saved_path, "Manifest.json")
\* update_manifest_model_name(manifest_file, saved_name)
Patch ==
    /\ cpc = "patch"
    /\ stages' = Append(stages, "patch")
    /\ ManifestFile(SavedPath(saved_name)) \in DOMAIN disk
    /\ disk' = UpdateManifestModelName(
                   disk, ManifestFile(SavedPath(saved_name)), saved_name)
    /\ cpc' = "done"
    /\ UNCHANGED <<calls, conversion_type, model_path, saved_name,
                   raised, caught, stdout>>
    /\ UNCHANGED fvars

\* update_manifest_model_name raises: the manifest cannot be read or written
PatchFail ==
    /\ cpc = "patch"
    /\ stages' = Append(stages, "patch")
    /\ Abort("ManifestPatchError")
    /\ UNCHANGED <<calls, conversion_type, model_path, saved_name, disk,
                   caught, stdout>>
    /\ UNCHANGED fvars

InitFetch ==
    /\ dest \in {NoFile, OldFile}
    /\ dirExists \in (IF Exists(dest) THEN {TRUE} ELSE BOOLEAN)
    /\ tmpdir = [n \in TmpNames |-> NoFile]
    /\ tmpFS \in Filesystems
    /\ nextTmp = 0
    /\ netCalls = 0
    /\ renames = <<>>
    /\ pc = [p \in Procs |-> "start"]
    /\ runs = [p \in Procs |-> 1]
    /\ tmp_path = [p \in Procs |-> None]
    /\ status = [p \in Procs |-> 0]
    /\ exc = [p \in Procs |-> NoExc]
    /\ ret = [p \in Procs |-> {}]
    /\ exitCode = [p \in Procs |-> {}]
    /\ stderr = [p \in Procs |-> 0]

InitConvert ==
    /\ cpc = "idle"
    /\ calls = 0
    /\ conversion_type = "NONE"
    /\ model_path = ""
    /\ saved_name = ""
    /\ disk = [x \in {} |-> DefaultModelName]
    /\ stages = <<>>
    /\ raised = "None"
    /\ caught = "None"
    /\ stdout = <<>>

Init == InitFetch /\ InitConvert

Next ==
    \E p \in Procs :
        \/ CheckExists(p)
        \/ Mkdir(p)
        \/ MkdirFail(p)
        \/ MkTemp(p)
        \/ MkTempFail(p)
        \/ UrlOpen(p)
        \/ UrlOpenFail(p)
        \/ CheckStatus(p)
        \/ CopyChunk(p)
        \/ CopyDone(p)
        \/ CopyFail(p)
        \/ Replace(p)
        \/ ReplaceFail(p)
        \/ Except(p)
        \/ Finally(p)
        \/ Rerun(p)

Spec == Init /\ [][Next]_vars

NextConvert ==
    \/ Call
    \/ Load
    \/ LoadFail
    \/ Tokenize
    \/ TokenizeFail
    \/ Trace
    \/ TraceFail
    \/ CtConvert
    \/ CtConvertFail
    \/ Apply
    \/ ExceptValueError
    \/ Save
    \/ SaveFail
    \/ Patch
    \/ PatchFail

\* The pipeline alone: no fetcher process takes a step, the destination is
\* absent.
InitPipeline ==
    /\ Init
    /\ dest = NoFile
    /\ ~dirExists
    /\ tmpFS = DestFS

SpecConvert == InitPipeline /\ [][NextConvert]_vars

\* ------------------------------------------------- Resource Fetcher claims
\* This run returned at the existence check: no exception, no temporary file.
AlreadyPresent(p) == tmp_path[p] = None /\ exc[p] = NoExc

\* This run's temporary file was renamed onto the destination.
Installed(p) ==
    /\ tmp_path[p] # None
    /\ \E i \in 1..Len(renames) : renames[i] = tmp_path[p]

\* C1: every step of every run, failed or interrupted ones included, leaves
\* the destination exactly as it was or puts the completely downloaded file
\* there; a partially written destination is never observable.
C1_NoPartialDestination ==
    [][dest' = dest \/ (dest'.exists /\ dest'.data = RemoteFile)]_vars

\* C1 witness: a fetch failed after the temporary file was partly written,
\* and the destination is still absent.
C1_Witness ==
    \E p \in Procs :
        /\ pc[p] = "finally"
        /\ exc[p].at = "copy"
        /\ tmp_path[p] # None
        /\ tmpdir[tmp_path[p]].exists
        /\ Len(tmpdir[tmp_path[p]].data) >= 1
        /\ Len(tmpdir[tmp_path[p]].data) < FileLen
        /\ ~dest.exists

\* C2: a run that finds the destination present returns 0 at once: no
\* network call, no directory, no temporary file, nothing reported, and the
\* destination file is left as it is.
C2_Idempotent ==
    [][\A p \in Procs :
         (pc[p] = "start" /\ pc'[p] # "start" /\ dest.exists) =>
            /\ pc'[p] = "done"
            /\ exitCode'[p] = {0}
            /\ netCalls' = netCalls
            /\ dirExists' = dirExists
            /\ tmpdir' = tmpdir
            /\ nextTmp' = nextTmp
            /\ tmp_path'[p] = None
            /\ stderr'[p] = 0
            /\ dest' = dest]_vars

\* C2 witness: a process ran twice in a row; its first run downloaded and
\* installed the file with one network call, its second run returned 0 and
\* the call count and the installed file are as the first run left them.
C2_Witness ==
    \E p \in Procs :
        /\ runs[p] = 2
        /\ pc[p] = "done"
        /\ exitCode[p] = {0}
        /\ tmp_path[p] = None
        /\ \A q \in Procs \ {p} : pc[q] = "start" /\ runs[q] = 1
        /\ netCalls = 1
        /\ renames = <<1>>
        /\ dest = [exists |-> TRUE, id |-> 1, data |-> RemoteFile]

\* C3: a terminated run has exit code 0 exactly when the destination was
\* already present or the download was installed, exit code 1 exactly when a
\* download or filesystem error was raised; a failure is reported once to the
\* error stream and a success prints nothing.
C3_ExitCodes ==
    \A p \in Procs :
        pc[p] = "done" =>
            /\ exitCode[p] \in {{0}, {1}}
            /\ (exitCode[p] = {0}) <=> (AlreadyPresent(p) \/ Installed(p))
            /\ (exitCode[p] = {1}) <=> (exc[p] # NoExc)
            /\ stderr[p] = (IF exitCode[p] = {1} THEN 1 ELSE 0)

\* C3 witness: one run ended 1 after a failed rename, reported once, and the
\* other ended 0 after installing its download, with nothing reported.
C3_Witness ==
    \E p, q \in Procs :
        /\ pc[p] = "done" /\ exc[p].at = "replace"
        /\ exitCode[p] = {1} /\ stderr[p] = 1
        /\ pc[q] = "done" /\ Installed(q)
        /\ exitCode[q] = {0} /\ stderr[q] = 0

\* C4: when main has finished, the temporary file the run created no longer
\* exists at its temporary path.
C4_TempFileGone ==
    \A p \in Procs :
        (pc[p] = "done" /\ tmp_path[p] # None) => ~tmpdir[tmp_path[p]].exists

\* C4 witness: a run whose copy failed after writing part of the temporary
\* file has finished, and the file is gone.
C4_Witness ==
    \E p \in Procs :
        /\ pc[p] = "done"
        /\ exc[p].at = "copy"
        /\ tmp_path[p] # None
        /\ ~tmpdir[tmp_path[p]].exists
        /\ ~Installed(p)

\* C8: the temporary file is always created in the filesystem of the
\* destination path, so the rename never crosses filesystems.
C8_TempOnDestinationFilesystem ==
    \A p \in Procs : tmp_path[p] # None => tmpFS = DestFS

\* C9: two concurrent runs that both found the destination absent use
\* distinct temporary files; the destination is absent or the complete
\* download of one of the two; once both have ended with exit code 0 the
\* destination is the file renamed last and no temporary file is left.
C9_LastRenameWins ==
    /\ \A p, q \in Procs :
         (p # q /\ tmp_path[p] # None /\ tmp_path[q] # None)
            => tmp_path[p] # tmp_path[q]
    /\ (\A p \in Procs : tmp_path[p] # None) =>
         \/ ~dest.exists
         \/ /\ dest.data = RemoteFile
            /\ \E p \in Procs : dest.id = tmp_path[p]
    /\ (\A p \in Procs :
            pc[p] = "done" /\ exitCode[p] = {0} /\ tmp_path[p] # None) =>
         /\ Len(renames) >= Cardinality(Procs)
         /\ dest = [exists |-> TRUE, id |-> renames[Len(renames)],
                    data |-> RemoteFile]
         /\ \A n \in TmpNames : ~tmpdir[n].exists

\* C9 witness: both processes downloaded in their first run, A renamed
\* first and B last, both ended 0, and the destination is B's file.
C9_Witness ==
    /\ \A p \in Procs : pc[p] = "done" /\ exitCode[p] = {0} /\ runs[p] = 1
    /\ tmp_path["A"] # None /\ tmp_path["B"] # None
    /\ renames = <<tmp_path["A"], tmp_path["B"]>>
    /\ dest.id = tmp_path["B"]

\* ---------------------------------------------- Conversion Pipeline claims
\* C5: in a call whose variant is not recognized no step writes to disk, and
\* neither the save nor the manifest patch is executed.
C5_NoBundleForUnrecognized ==
    [][conversion_type' \notin Recognized =>
          /\ disk' = disk
          /\ \A i \in 1..Len(stages') : stages'[i] \notin {"save", "patch"}]_vars

\* C5 witness: a call with an unrecognized variant ran up to the variant
\* transform, which rejected it, and has ended with nothing on disk.
C5_Witness ==
    /\ cpc = "done"
    /\ conversion_type \notin Recognized
    /\ caught = "ValueError"
    /\ stages = SubSeq(StageOrder, 1, 5)
    /\ DOMAIN disk = {}

\* C6: when the variant transform raised the unsupported-variant error,
\* convert reports it and returns normally; no exception leaves convert.
C6_UnsupportedVariantReturns ==
    (cpc = "done" /\ caught = "ValueError") =>
        /\ raised = "None"
        /\ stdout = <<"ValueError">>

\* C7: a call with a recognized variant and a non-empty output name in which
\* no stage failed ends with the bundle at "{outputName}.mlpackage", saved
\* and then patched, whose Manifest.json model name is outputName.
C7_ManifestNamed ==
    (/\ cpc = "done"
     /\ raised = "None"
     /\ caught = "None"
     /\ conversion_type \in Recognized
     /\ saved_name # "") =>
        /\ stages = StageOrder
        /\ (saved_name \o ".mlpackage/Data/model.mlmodel") \in DOMAIN disk
        /\ (saved_name \o ".mlpackage/Manifest.json") \in DOMAIN disk
        /\ disk[saved_name \o ".mlpackage/Manifest.json"].modelName
              = saved_name

\* C7 witness: convert(NONE, "segment-any-text/sat-3l-sm", "SaT") has ended
\* and SaT.mlpackage/Manifest.json names the model "SaT".
C7_Witness ==
    /\ cpc = "done"
    /\ raised = "None"
    /\ conversion_type = "NONE"
    /\ saved_name = "SaT"
    /\ stages = StageOrder
    /\ "SaT.mlpackage/Manifest.json" \in DOMAIN disk
    /\ disk["SaT.mlpackage/Manifest.json"].modelName = "SaT"

\* C10: the stages of a call run in the fixed order; once a stage has failed
\* no later stage starts and nothing is written; and the disk is written only
\* in a call whose load, tokenize, trace, package conversion and variant
\* transform have all run without failure.
C10_StagesInOrder ==
    /\ [](/\ Len(stages) <= Len(StageOrder)
          /\ stages = SubSeq(StageOrder, 1, Len(stages)))
    /\ [][((raised # "None" \/ caught # "None") /\ calls' = calls) =>
             (stages' = stages /\ disk' = disk)]_vars
    /\ [][disk' # disk =>
             /\ raised = "None"
             /\ caught = "None"
             /\ Len(stages') >= 6
             /\ SubSeq(stages', 1, 5) = SubSeq(StageOrder, 1, 5)]_vars

\* C10 witness: a call whose trace failed ended after three stages with
\* nothing on disk.
C10_Witness ==
    /\ cpc = "done"
    /\ raised = "TraceError"
    /\ stages = <<"load", "tokenize", "trace">>
    /\ DOMAIN disk = {}

====
